---- MODULE Spec2Model ----
(***************************************************************************)
(* Model of src/tooltest/sample.py: the DataProcessor class, calculate_sum *)
(* and the module-scope statements, followed by arbitrary client calls on  *)
(* the imported module.                                                    *)
(*                                                                         *)
(* Python objects are modelled by reference.  A record built by            *)
(* process_data is a dict living on `heap`; a DataProcessor's `data` list  *)
(* holds references (heap addresses), and so does every value returned to  *)
(* a caller.                                                               *)
(***************************************************************************)
EXTENDS Integers, Sequences, FiniteSets, TLC

\* ------------------------------------------------------------------ bounds

\* DataProcessor instances alive at once (the module's own one included).
MaxProcessors == 2
\* process_data calls in one run (the module's own one included).
MaxCalls == 4
\* Length of the sequences a client hands to calculate_sum.
MaxNumbers == 2
\* Field assignments a caller makes on records it was handed.
MaxWrites == 1

\* Values a client passes as input_data (Python values, by their text).
Inputs == {"test content", "other"}
\* Numbers a client puts into the sequences it sums.
Numbers == {-2, 1, 3}
\* Values a caller assigns to a field of a record it holds.
WriteValues(field) ==
    CASE field = "id" -> {7}
      [] field = "content" -> {"overwritten"}
      [] field = "status" -> {"tampered"}

\* --------------------------------------------------------------- the state

VARIABLES
    pc,        \* the next module-scope statement of sample.py, or "done"
    globals,   \* the module namespace: name -> value, for the names bound so far
    heap,      \* heap[r]: the dict at address r, [id, content, status]
    data,      \* data[p]: the `data` list of DataProcessor p, a sequence of addresses
    calls,     \* the process_data calls so far, in call order, each with what it returned
    sum_call,  \* the latest calculate_sum call and what it returned (<<>> before the first)
    writes     \* the field assignments callers made on records they hold

vars == <<pc, globals, heap, data, calls, sum_call, writes>>

\* ------------------------------------------------- sample.py, DataProcessor

\* __init__: self.data = []
DataProcessor_init(d) == Append(d, <<>>)

\* 'id': len(self.data), computed from the list alone
IdDedup(h, lst, input_data) ==
    Cardinality({i \in 1..Len(lst) : h[lst[i]].content # input_data})
IdOneBased(h, lst, input_data) == Len(lst) + 1
NextId(h, lst, input_data) == Len(lst)

\* the dict literal of process_data
MakeRecordPending(h, lst, input_data) ==
    [id |-> NextId(h, lst, input_data), content |-> input_data, status |-> "pending"]
MakeRecord(h, lst, input_data) ==
    [id |-> NextId(h, lst, input_data), content |-> input_data, status |-> "processed"]

\* self.data.append(processed)
ListPrepend(d, self, ref) == [d EXCEPT ![self] = <<ref>> \o @]
ListReplace(d, self, ref) == [d EXCEPT ![self] = <<ref>>]
ListAppendShared(d, self, ref) == [q \in DOMAIN d |-> Append(d[q], ref)]
ListAppend(d, self, ref) == [d EXCEPT ![self] = Append(@, ref)]

\* process_data(self, input_data): the heap and the lists after the call, and
\* the reference it returns.  The dict is allocated once; the reference
\* appended and the reference returned are that one address.
process_data_copy(h, d, self, input_data) ==
    LET processed == Len(h) + 1
        rec == MakeRecord(h, d[self], input_data)
        copy == Len(h) + 2
    IN  [heap |-> Append(Append(h, rec), rec),
         data |-> ListAppend(d, self, copy),
         ret  |-> processed]
process_data_supersede(h, d, self, input_data) ==
    LET processed == Len(h) + 1
        mine == {d[self][i] : i \in 1..Len(d[self])}
        marked == [r \in 1..Len(h) |->
                     IF r \in mine THEN [h[r] EXCEPT !.status = "superseded"] ELSE h[r]]
    IN  [heap |-> Append(marked, MakeRecord(h, d[self], input_data)),
         data |-> ListAppend(d, self, processed),
         ret  |-> processed]
process_data(h, d, self, input_data) ==
    LET processed == Len(h) + 1
    IN  [heap |-> Append(h, MakeRecord(h, d[self], input_data)),
         data |-> ListAppend(d, self, processed),
         ret  |-> processed]

\* --------------------------------------------------- sample.py, calculate_sum

\* the for loop: `num` takes numbers[i] for i = 1, 2, ..., and total += num.
\* `iterated` lists the values `num` has taken.
RECURSIVE ForLoopAssign(_, _, _, _)
ForLoopAssign(numbers, i, total, iterated) ==
    IF i > Len(numbers)
    THEN [total |-> total, iterated |-> iterated]
    ELSE ForLoopAssign(numbers, i + 1, numbers[i], Append(iterated, numbers[i]))

RECURSIVE ForLoop(_, _, _, _)
ForLoop(numbers, i, total, iterated) ==
    IF i > Len(numbers)
    THEN [total |-> total, iterated |-> iterated]
    ELSE ForLoop(numbers, i + 1, total + numbers[i], Append(iterated, numbers[i]))

calculate_sum_skip_first(numbers) ==
    LET out == ForLoop(numbers, 2, 0, <<>>)
    IN  [numbers |-> numbers, ret |-> out.total, iterated |-> out.iterated]
calculate_sum(numbers) ==
    LET out == ForLoop(numbers, 1, 0, <<>>)
    IN  [numbers |-> numbers, ret |-> out.total, iterated |-> out.iterated]

\* ------------------------------------------------- sample.py, module scope

ConfigurationLiteral ==
    [database_url |-> "postgresql://localhost:5432/test",
     debug |-> TRUE,
     max_connections |-> 100]

ModuleInput == "test content"

ModuleNumbers == <<1, 2, 3, 4, 5>>

Bind(g, name, value) ==
    [n \in DOMAIN g \cup {name} |-> IF n = name THEN value ELSE g[n]]

\* the record of one process_data call, as its caller sees it
CallEntry(self, input_data, out) ==
    [self |-> self, input |-> input_data, ret |-> out.ret, rec |-> out.heap[out.ret]]

Init ==
    /\ pc = "CONFIGURATION"
    /\ globals = [n \in {} |-> 0]
    /\ heap = <<>>
    /\ data = <<>>
    /\ calls = <<>>
    /\ sum_call = <<>>
    /\ writes = <<>>

\* CONFIGURATION = {...}
StmtConfiguration ==
    /\ pc = "CONFIGURATION"
    /\ globals' = Bind(globals, "CONFIGURATION", ConfigurationLiteral)
    /\ pc' = "processor"
    /\ UNCHANGED <<heap, data, calls, sum_call, writes>>

\* processor = DataProcessor()
StmtProcessor ==
    /\ pc = "processor"
    /\ data' = DataProcessor_init(data)
    /\ globals' = Bind(globals, "processor", Len(data) + 1)
    /\ pc' = "result"
    /\ UNCHANGED <<heap, calls, sum_call, writes>>

\* result = processor.process_data("test content")
StmtResult ==
    /\ pc = "result"
    /\ LET out == process_data(heap, data, globals.processor, ModuleInput)
       IN  /\ heap' = out.heap
           /\ data' = out.data
           /\ calls' = Append(calls, CallEntry(globals.processor, ModuleInput, out))
           /\ globals' = Bind(globals, "result", out.ret)
    /\ pc' = "total"
    /\ UNCHANGED <<sum_call, writes>>

\* total = calculate_sum([1, 2, 3, 4, 5])
StmtTotal ==
    /\ pc = "total"
    /\ LET out == calculate_sum(ModuleNumbers)
       IN  /\ sum_call' = <<out>>
           /\ globals' = Bind(globals, "total", out.ret)
    /\ pc' = "done"
    /\ UNCHANGED <<heap, data, calls, writes>>

\* ---------------------------------------- clients of the imported module

\* DataProcessor()
Construct ==
    /\ pc = "done"
    /\ Len(data) < MaxProcessors
    /\ data' = DataProcessor_init(data)
    /\ UNCHANGED <<pc, globals, heap, calls, sum_call, writes>>

\* p.process_data(x), on any instance, the module's `processor` included
ProcessData(p, x) ==
    /\ pc = "done"
    /\ p \in DOMAIN data
    /\ Len(calls) < MaxCalls
    /\ LET out == process_data(heap, data, p, x)
       IN  /\ heap' = out.heap
           /\ data' = out.data
           /\ calls' = Append(calls, CallEntry(p, x, out))
    /\ UNCHANGED <<pc, globals, sum_call, writes>>

BoundedSeqs(S, n) == UNION {[1..k -> S] : k \in 0..n}

\* calculate_sum(numbers)
CalculateSum(numbers) ==
    /\ pc = "done"
    /\ sum_call' = <<calculate_sum(numbers)>>
    /\ UNCHANGED <<pc, globals, heap, data, calls, writes>>

\* rec[field] = value, by a caller on a dict process_data returned to it
CallerSetField(r, field, value) ==
    /\ pc = "done"
    /\ Len(writes) < MaxWrites
    /\ \E k \in 1..Len(calls) : calls[k].ret = r
    /\ heap[r][field] # value
    /\ heap' = [heap EXCEPT ![r][field] = value]
    /\ writes' = Append(writes, [ref |-> r, field |-> field, value |-> value,
                                 after |-> Len(calls)])
    /\ UNCHANGED <<pc, globals, data, calls, sum_call>>

Next ==
    \/ StmtConfiguration
    \/ StmtProcessor
    \/ StmtResult
    \/ StmtTotal
    \/ Construct
    \/ \E p \in 1..MaxProcessors, x \in Inputs : ProcessData(p, x)
    \/ \E numbers \in BoundedSeqs(Numbers, MaxNumbers) : CalculateSum(numbers)

\* the code alone: the module-scope statements, then clients calling it
Spec == Init /\ [][Next]_vars

NextAlias ==
    \/ StmtConfiguration
    \/ StmtProcessor
    \/ StmtResult
    \/ StmtTotal
    \/ Construct
    \/ \E p \in 1..MaxProcessors, x \in Inputs : ProcessData(p, x)
    \/ \E r \in 1..MaxCalls, field \in {"id", "content", "status"} :
          \E value \in WriteValues(field) : CallerSetField(r, field, value)

\* DataProcessor and its callers, where a caller may also assign to fields of
\* the dicts it was handed (calculate_sum touches neither heap nor lists and
\* is left to Spec)
SpecAlias == Init /\ [][NextAlias]_vars

\* ------------------------------------------------------------- properties

\* the process_data calls made on instance p, in call order
CallsOn(p) ==
    LET OnP(c) == c.self = p
    IN  SelectSeq(calls, OnP)

\* call k is the CallNo(k)-th call on its instance
CallNo(k) == Cardinality({j \in 1..k : calls[j].self = calls[k].self})

\* C1: on each instance the ids of the returned records are 0, 1, ..., N-1
\* in call order: the k-th call on an instance returns id k-1.
C1_IdsSequential ==
    \A k \in 1..Len(calls) : calls[k].rec.id = CallNo(k) - 1

C1_Witness ==
    \E p \in DOMAIN data :
        /\ Len(CallsOn(p)) = 3
        /\ CallsOn(p)[1].input # CallsOn(p)[2].input
        /\ CallsOn(p)[3].rec.id = 2

\* C2: every record stored in an instance's data list has an id equal to its
\* (0-based) index in that list.
C2_IdIsIndex ==
    \A p \in DOMAIN data :
        \A i \in 1..Len(data[p]) : heap[data[p][i]].id = i - 1

C2_Witness ==
    /\ Len(data) = 2
    /\ Len(data[1]) = 2
    /\ Len(data[2]) = 2

\* C3: the record a call returns has status 'processed' and the call's input
\* as content, whatever the input and the prior state; and no input is
\* rejected: once the module has run, process_data is enabled on every live
\* instance for every input (up to the bound on calls).
C3_StatusAndContent ==
    /\ \A k \in 1..Len(calls) :
           /\ calls[k].rec.status = "processed"
           /\ calls[k].rec.content = calls[k].input
    /\ (pc = "done" /\ Len(calls) < MaxCalls) =>
           \A p \in DOMAIN data, x \in Inputs : ENABLED ProcessData(p, x)

C3_Witness ==
    /\ Len(calls) >= 3
    /\ \E j, k \in 1..Len(calls) :
           /\ j < k
           /\ calls[j].self = calls[k].self
           /\ calls[j].input = "test content"
           /\ calls[k].input = "other"
           /\ calls[k].rec.content = "other"

\* the mathematical sum of a finite sequence
RECURSIVE SeqSum(_)
SeqSum(s) == IF s = <<>> THEN 0 ELSE Head(s) + SeqSum(Tail(s))

\* C4: calculate_sum returns the arithmetic sum of the elements, having
\* visited each element exactly once in order; the empty sequence yields 0
\* and [1, 2, 3, 4, 5] yields 15.
C4_SumIsSum ==
    sum_call # <<>> =>
        LET c == sum_call[1]
        IN  /\ c.ret = SeqSum(c.numbers)
            /\ c.iterated = c.numbers
            /\ (c.numbers = <<>> => c.ret = 0)
            /\ (c.numbers = <<1, 2, 3, 4, 5>> => c.ret = 15)

C4_Witness ==
    /\ sum_call # <<>>
    /\ sum_call[1].numbers = <<3, -2>>
    /\ sum_call[1].ret = 1

\* C5: every call lengthens its instance's list by exactly one and the record
\* it returns is the last element after the call, so an instance's list holds
\* exactly the records its calls returned, in call order.
C5_ListHoldsReturned ==
    \A p \in DOMAIN data :
        /\ Len(data[p]) = Len(CallsOn(p))
        /\ \A i \in 1..Len(data[p]) : heap[data[p][i]] = CallsOn(p)[i].rec

C5_Witness ==
    \E p \in DOMAIN data :
        /\ Len(data[p]) = 3
        /\ heap[data[p][3]].content # heap[data[p][2]].content

\* C6: the data lists are append-only and the stored records are never
\* rewritten: every step of the code leaves each stored record, and its
\* position, as it was.
C6_AppendOnly ==
    [][\A p \in DOMAIN data :
          /\ p \in DOMAIN data'
          /\ Len(data'[p]) >= Len(data[p])
          /\ \A i \in 1..Len(data[p]) :
                 /\ data'[p][i] = data[p][i]
                 /\ heap'[data'[p][i]] = heap[data[p][i]]]_vars

C6_Witness ==
    /\ Len(data) = 2
    /\ Len(data[1]) = 3
    /\ Len(data[2]) = 1
    /\ calls[Len(calls)].self = 1
    /\ Len(sum_call[1].numbers) = 2

\* C7: the id a call returns depends only on how many calls preceded it on
\* its instance, never on the inputs: calls of equal rank on two instances
\* return equal ids whatever was passed, and a second call returns 1.
C7_IdIndependentOfInput ==
    \A j, k \in 1..Len(calls) :
        /\ CallNo(j) = CallNo(k) => calls[j].rec.id = calls[k].rec.id
        /\ CallNo(k) = 2 => calls[k].rec.id = 1

C7_Witness ==
    \E j, k \in 1..Len(calls) :
        /\ calls[j].self # calls[k].self
        /\ CallNo(j) = 2
        /\ CallNo(k) = 2
        /\ CallsOn(calls[j].self)[1].input # CallsOn(calls[k].self)[1].input
        /\ calls[j].input = calls[k].input
        /\ calls[j].rec.id = 1
        /\ calls[k].rec.id = 1

\* C8: state is per instance: a newly constructed instance starts with an
\* empty list and leaves the others alone; a call on one instance leaves every
\* other instance's list unchanged and takes its id from its own list alone.
C8_PerInstance ==
    [][/\ Len(data') = Len(data) + 1 =>
            /\ data'[Len(data')] = <<>>
            /\ \A q \in DOMAIN data : data'[q] = data[q]
       /\ Len(calls') = Len(calls) + 1 =>
            LET c == calls'[Len(calls')]
            IN  /\ c.rec.id = Len(data[c.self])
                /\ \A q \in DOMAIN data \ {c.self} : data'[q] = data[q]]_vars

C8_Witness ==
    /\ Len(calls) = 3
    /\ calls[1].self = 1
    /\ calls[2].self = 2
    /\ calls[3].self = 1
    /\ calls[2].rec.id = 0
    /\ calls[3].rec.id = 1
    /\ Len(data[2]) = 1

\* the module namespace once the module-scope statements have run
ModuleBindings ==
    /\ DOMAIN globals = {"CONFIGURATION", "processor", "result", "total"}
    /\ globals.CONFIGURATION =
           [database_url |-> "postgresql://localhost:5432/test",
            debug |-> TRUE,
            max_connections |-> 100]
    /\ globals.total = 15
    /\ heap[globals.result] =
           [id |-> 0, content |-> "test content", status |-> "processed"]
    /\ data[globals.processor][1] = globals.result

\* C9: when the last module-scope statement has run, `processor` holds exactly
\* one record, {id 0, content "test content", status "processed"}, which is
\* `result`; total is 15; CONFIGURATION holds its three declared pairs; and
\* no later operation changes any of these bindings.
C9_ModuleScope ==
    [][pc' = "done" =>
          /\ ModuleBindings'
          /\ pc # "done" => data'[globals'.processor] = <<globals'.result>>]_vars

C9_Witness ==
    /\ pc = "done"
    /\ Len(calls) = 1
    /\ Len(data) = 1
    /\ sum_call[1].numbers = <<1, 2, 3, 4, 5>>
    /\ globals.total = 15

\* C10: the dict a call returns is the very object stored in the list: the
\* address returned is the address stored at that index, a field a caller
\* assigns on a dict it holds is what the stored record then shows, and the
\* ids of later calls still come from the list's length alone.
C10_SameObject ==
    /\ \A p \in DOMAIN data :
           /\ Len(data[p]) = Len(CallsOn(p))
           /\ \A i \in 1..Len(data[p]) : data[p][i] = CallsOn(p)[i].ret
    /\ writes # <<>> =>
           LET w == writes[Len(writes)]
           IN  \E p \in DOMAIN data : \E i \in 1..Len(data[p]) :
                   /\ data[p][i] = w.ref
                   /\ heap[data[p][i]][w.field] = w.value
    /\ \A k \in 1..Len(calls) : calls[k].rec.id = CallNo(k) - 1

C10_Witness ==
    \E n \in 1..Len(writes) : \E k \in 1..Len(calls) :
        LET w == writes[n]
            p == calls[k].self
        IN  /\ w.field = "id"
            /\ k > w.after
            /\ data[p][1] = w.ref
            /\ heap[data[p][1]].id = 7
            /\ calls[k].rec.id = CallNo(k) - 1
            /\ heap[data[p][CallNo(k)]].id = CallNo(k) - 1

====
